---- MODULE Spec2Model ----
(***************************************************************************)
(* HID controller health checker (src/hid_health_checker.py).              *)
(*                                                                         *)
(* The monitor thread is main(): start-up (load_ips, get_email_cfg, the    *)
(* status table, start_dashboard) followed by the polling loop of lines    *)
(* 209-262.  Its program counter pc names the source line about to run.    *)
(* The dashboard thread is the Flask view of run_dashboard, which renders  *)
(* DASHBOARD_HTML over the global controller_status.                       *)
(*                                                                         *)
(* Time is an integer number of seconds.  A datetime is a record           *)
(* [t, aware]: datetime.now(datetime.UTC) is timezone-aware,               *)
(* datetime.utcnow() is naive, and Python refuses to subtract one from     *)
(* the other (TypeError).                                                  *)
(***************************************************************************)
EXTENDS Integers, Sequences, FiniteSets, TLC

VARIABLES
    pc,                 \* monitor thread: the source line about to run, or "exited"
    args,               \* argparse result: [interval, alert_after]
    ips,                \* list returned by load_ips
    status,             \* main()'s status dict: ip -> [online, changed, alerted]
    controller_status,  \* module-global dict read by the dashboard
    i,                  \* position of the for loop in ips (1-based)
    online,             \* local variable online of the current iteration
    cycle,              \* number of the current pass of the while loop
    now,                \* wall clock, seconds
    pingWait,           \* seconds one ping of a silent host takes on this machine
    history,            \* rows of table status_history, in insertion order
    outbox,             \* send_email calls so far: [kind, ip, ok, at, t]
    probes,             \* ip -> results of ping(ip) so far: [up, t]
    evals,              \* ip -> number of completed alert evaluations (lines 237-260)
    versions,           \* ip -> the (online, changed) pairs the record held between updates
    exc,                \* exception that ended main(), "none" if none
    exitCode,           \* process exit status, -1 while running
    dashStarted,        \* start_dashboard has run
    rpc,                \* dashboard thread: position inside one rendering
    rsize,              \* dict size seen when the template's for loop started
    ridx,               \* number of entries the for loop has yielded
    rip,                \* ip of the row being rendered
    rinfo,              \* object bound to info for that row
    rrow,               \* values rendered for the row so far
    rresult             \* outcome of the last finished rendering

vars == <<pc, args, ips, status, controller_status, i, online, cycle, now, pingWait,
          history, outbox, probes, evals, versions, exc, exitCode, dashStarted,
          rpc, rsize, ridx, rip, rinfo, rrow, rresult>>

monitorVars == <<pc, args, ips, status, controller_status, i, online, cycle, now, pingWait,
                 history, outbox, probes, evals, versions, exc, exitCode, dashStarted>>

readerVars == <<rpc, rsize, ridx, rip, rinfo, rrow, rresult>>

(***************************************************************************)
(* Bounds and inputs                                                       *)
(***************************************************************************)
MaxCycles == 6

\* seconds ping waits for a host that does not answer
PingWaits == {0, 1}

\* values of --interval and --alert-after tried
Intervals == {1, 2}

Thresholds == {1, 3}

\* contents of the ip file tried
HostLists == { <<>>, <<"10.0.0.1", "10.0.0.2">> }

Range(s) == { s[k] : k \in 1..Len(s) }

Hosts == Range(ips)

(***************************************************************************)
(* Values                                                                  *)
(***************************************************************************)
\* datetime.datetime.now(datetime.UTC)
NowAware(t) == [t |-> t, aware |-> TRUE]

\* datetime.datetime.utcnow()
UtcNow(t) == [t |-> t, aware |-> FALSE]

\* s["online"] holds None, True or False
PyBool(b) == IF b THEN "True" ELSE "False"

\* "ONLINE" if online else "OFFLINE"
StateName(b) == IF b THEN "ONLINE" ELSE "OFFLINE"

\* one value of the status dict comprehension
InitialRecord(t) == [online |-> "None", changed |-> NowAware(t), alerted |-> FALSE]

\* an entry of controller_status: the live record of status (alias) or a copy
Alias == [alias |-> TRUE, rec |-> InitialRecord(0)]

CopyOf(s) == [alias |-> FALSE, rec |-> s]

\* the dict an entry (or a reference taken from one) denotes right now
Deref(e, ip) == IF e.alias THEN status[ip] ELSE e.rec

\* keys of controller_status in insertion order (entries are inserted in loop order)
Keys == SelectSeq(ips, LAMBDA h : h \in DOMAIN controller_status)

ip == ips[i]

\* what a dashboard row shows of a record
Version(s) == [online |-> s.online, changed |-> s.changed]

\* a row of the table before any cell is rendered
NoRow == [cls |-> "", text |-> "", changed |-> NowAware(0)]

Init ==
    /\ pc = "L184"
    /\ args \in [interval : Intervals, alert_after : Thresholds]
    /\ ips = <<>>
    /\ status = <<>>
    /\ controller_status = <<>>
    /\ i = 1
    /\ online = FALSE
    /\ cycle = 0
    /\ now = 0
    /\ pingWait \in PingWaits
    /\ history = <<>>
    /\ outbox = <<>>
    /\ probes = <<>>
    /\ evals = <<>>
    /\ versions = <<>>
    /\ exc = "none"
    /\ exitCode = -1
    /\ dashStarted = FALSE
    /\ rpc = "idle"
    /\ rsize = 0
    /\ ridx = 0
    /\ rip = ""
    /\ rinfo = Alias
    /\ rrow = NoRow
    /\ rresult = "none"


(***************************************************************************)
(* Pure pieces of the loop body                                            *)
(***************************************************************************)
\* s["online"] = online
SetOnline(s, b) == [s EXCEPT !.online = PyBool(b)]

\* SetChangedFirst with line 218 missing: the time of the dict comprehension stays
SetChangedFirst_stale(s, t) == s

\* s["changed"] = datetime.datetime.utcnow()            (first observation)
SetChangedFirst(s, t) == [s EXCEPT !.changed = UtcNow(t)]

\* s["changed"] = datetime.datetime.now(datetime.UTC)   (state change)
SetChangedFlip(s, t) == [s EXCEPT !.changed = NowAware(t)]

\* s["alerted"] = False                                 (state change)
ResetAlerted(s) == [s EXCEPT !.alerted = FALSE]

\* s["alerted"] = True, inside the try, after send_email returned
MarkAlerted(s) == [s EXCEPT !.alerted = TRUE]

\* s["alerted"] = False, after the try of the recovery mail
ClearAlerted(s) == [s EXCEPT !.alerted = FALSE]

\* ObserveBranch with the comparison of line 221 lost ("else:" instead of "elif")
ObserveBranch_alwaysFlip(s, b) ==
    IF s.online = "None" THEN "first" ELSE "flip"

\* which branch of "if s['online'] is None / elif online != s['online']" runs
ObserveBranch(s, b) ==
    IF s.online = "None" THEN "first"
    ELSE IF PyBool(b) # s.online THEN "flip"
    ELSE "same"

\* (datetime.datetime.utcnow() - s["changed"]).total_seconds()
\* only defined for a naive s["changed"]
OfflineSeconds(s, t) == t - s.changed.t

\* AlertAction with the threshold test left out of line 239
AlertAction_noThreshold(s, b, t, thr) ==
    IF ~b
    THEN IF s.changed.aware THEN "TypeError"
         ELSE IF ~s.alerted THEN "RaiseAlert"
         ELSE "None"
    ELSE IF s.alerted THEN "ClearAlert" ELSE "None"

\* AlertAction with the test of line 237 inverted ("if online:")
AlertAction_inverted(s, b, t, thr) ==
    IF b
    THEN IF s.changed.aware THEN "TypeError"
         ELSE IF OfflineSeconds(s, t) >= thr /\ ~s.alerted THEN "RaiseAlert"
         ELSE "None"
    ELSE IF s.alerted THEN "ClearAlert" ELSE "None"

\* Outcome of lines 237-252 up to the point a mail would be sent:
\* the subtraction runs first, whatever s["alerted"] holds.
AlertAction(s, b, t, thr) ==
    IF ~b
    THEN IF s.changed.aware THEN "TypeError"
         ELSE IF OfflineSeconds(s, t) >= thr /\ ~s.alerted THEN "RaiseAlert"
         ELSE "None"
    ELSE IF s.alerted THEN "ClearAlert" ELSE "None"

\* row written by log_status_change(ip, state, s["changed"].isoformat())
TransitionRow(h, b, s) ==
    [ip |-> h, status |-> StateName(b), changed |-> s.changed, sep |-> "T"]

\* row written by log_status_change(ip, ..., s["changed"]): sqlite3's datetime adapter
PollRow(h, b, s) ==
    [ip |-> h, status |-> StateName(b), changed |-> s.changed, sep |-> " "]

\* one call of send_email: the subject's kind and ip, whether it returned (ok) or
\* raised, the number of the probe of that ip being handled, and the time
Mail(kind, h, ok, n, t) == [kind |-> kind, ip |-> h, ok |-> ok, at |-> n, t |-> t]

\* ExitStatus with KeyboardInterrupt falling into the handler of line 265
ExitStatus_oneHandler(e) == 2

\* except KeyboardInterrupt: log, return (status 0)
\* except Exception: logging.exception, sys.exit(2)
ExitStatus(e) == IF e = "KeyboardInterrupt" THEN 0 ELSE 2

LoopPcs == {"L212", "L216", "L218", "L223", "L224", "L227", "L228",
            "L231", "L234", "L237", "L262"}

(***************************************************************************)
(* Start-up, lines 175-207                                                 *)
(***************************************************************************)
\* LoadIps without the test of line 185
LoadIps_noCheck ==
    /\ pc = "L184"
    /\ \E l \in HostLists : ips' = l
    /\ pc' = "L189"
    /\ UNCHANGED <<versions, pingWait, args, status, controller_status, i, online, cycle,
                   now, history, outbox, probes, evals, exc, exitCode, dashStarted>>
    /\ UNCHANGED readerVars

\* ips = load_ips(args.ip_file); if not ips: sys.exit(1)
LoadIps ==
    /\ pc = "L184"
    /\ \E l \in HostLists :
          /\ ips' = l
          /\ IF l = <<>>
             THEN pc' = "exited" /\ exitCode' = 1
             ELSE pc' = "L189" /\ exitCode' = exitCode
    /\ UNCHANGED <<versions, pingWait, args, status, controller_status, i, online, cycle, now, history,
                   outbox, probes, evals, exc, dashStarted>>
    /\ UNCHANGED readerVars

\* email_cfg = get_email_cfg(): raises EnvironmentError outside the try block,
\* so the interpreter prints the traceback and ends with status 1
GetEmailCfg ==
    /\ pc = "L189"
    /\ \E missing \in BOOLEAN :
          IF missing
          THEN pc' = "exited" /\ exc' = "EnvironmentError" /\ exitCode' = 1
          ELSE pc' = "L191" /\ exc' = exc /\ exitCode' = exitCode
    /\ UNCHANGED <<versions, pingWait, args, ips, status, controller_status, i, online, cycle, now,
                   history, outbox, probes, evals, dashStarted>>
    /\ UNCHANGED readerVars

\* status = {ip: {"online": None, "changed": now(UTC), "alerted": False} for ip in ips}
InitStatus ==
    /\ pc = "L191"
    /\ status' = [h \in Hosts |-> InitialRecord(now)]
    /\ probes' = [h \in Hosts |-> <<>>]
    /\ evals' = [h \in Hosts |-> 0]
    /\ versions' = [h \in Hosts |-> {Version(InitialRecord(now))}]
    /\ pc' = "L207"
    /\ UNCHANGED <<pingWait, args, ips, controller_status, i, online, cycle, now, history,
                   outbox, exc, exitCode, dashStarted>>
    /\ UNCHANGED readerVars

\* init_db(); start_dashboard(); then the first pass of while True / for ip in ips
StartDashboard ==
    /\ pc = "L207"
    /\ dashStarted' = TRUE
    /\ cycle' = 1
    /\ i' = 1
    /\ pc' = "L212"
    /\ UNCHANGED <<versions, pingWait, args, ips, status, controller_status, online, now, history,
                   outbox, probes, evals, exc, exitCode>>
    /\ UNCHANGED readerVars

(***************************************************************************)
(* The loop, lines 209-267                                                 *)
(***************************************************************************)
\* Raise with the handler inside the while loop: log, go on with the next pass
Raise_logAndContinue(e) ==
    /\ pc' = "L262"
    /\ exc' = e
    /\ exitCode' = exitCode

\* an exception leaves the try block: one of the two handlers runs
Raise(e) ==
    /\ pc' = "exited"
    /\ exc' = e
    /\ exitCode' = ExitStatus(e)

\* NextIter with the for loop stopping one entry early (for ip in ips[:-1])
NextIter_skipsLast ==
    IF i < Len(ips) - 1
    THEN i' = i + 1 /\ pc' = "L212"
    ELSE i' = i /\ pc' = "L262"

\* end of the body of "for ip in ips": next ip, or time.sleep
NextIter ==
    IF i < Len(ips)
    THEN i' = i + 1 /\ pc' = "L212"
    ELSE i' = i /\ pc' = "L262"

\* online = ping(ip): the result, after a wait that is longer for a silent host
Ping ==
    /\ pc = "L212"
    /\ \E r \in BOOLEAN :
          /\ online' = r
          /\ now' = IF r THEN now ELSE now + pingWait
          /\ probes' = [probes EXCEPT ![ip] = Append(@, [up |-> r, t |-> now'])]
    /\ pc' = "L216"
    /\ UNCHANGED <<versions, pingWait, args, ips, status, controller_status, i, cycle, history, outbox,
                   evals, exc, exitCode, dashStarted>>
    /\ UNCHANGED readerVars

\* subprocess.run raises (no ping executable, fork failure)
PingRaises ==
    /\ pc = "L212"
    /\ Raise("OSError")
    /\ UNCHANGED <<versions, pingWait, args, ips, status, controller_status, i, online, cycle, now,
                   history, outbox, probes, evals, dashStarted>>
    /\ UNCHANGED readerVars

\* line 217, first observation
FirstSetOnline ==
    /\ pc = "L216"
    /\ ObserveBranch(status[ip], online) = "first"
    /\ status' = [status EXCEPT ![ip] = SetOnline(@, online)]
    /\ pc' = "L218"
    /\ UNCHANGED <<versions, pingWait, args, ips, controller_status, i, online, cycle, now, history,
                   outbox, probes, evals, exc, exitCode, dashStarted>>
    /\ UNCHANGED readerVars

\* line 218
FirstSetChanged ==
    /\ pc = "L218"
    /\ status' = [status EXCEPT ![ip] = SetChangedFirst(@, now)]
    /\ versions' = [versions EXCEPT ![ip] = @ \cup {Version(status'[ip])}]
    /\ pc' = "L231"
    /\ UNCHANGED <<pingWait, args, ips, controller_status, i, online, cycle, now, history,
                   outbox, probes, evals, exc, exitCode, dashStarted>>
    /\ UNCHANGED readerVars

\* line 222, state change
FlipSetOnline ==
    /\ pc = "L216"
    /\ ObserveBranch(status[ip], online) = "flip"
    /\ status' = [status EXCEPT ![ip] = SetOnline(@, online)]
    /\ pc' = "L223"
    /\ UNCHANGED <<versions, pingWait, args, ips, controller_status, i, online, cycle, now, history,
                   outbox, probes, evals, exc, exitCode, dashStarted>>
    /\ UNCHANGED readerVars

\* line 223
FlipSetChanged ==
    /\ pc = "L223"
    /\ status' = [status EXCEPT ![ip] = SetChangedFlip(@, now)]
    /\ pc' = "L224"
    /\ UNCHANGED <<versions, pingWait, args, ips, controller_status, i, online, cycle, now, history,
                   outbox, probes, evals, exc, exitCode, dashStarted>>
    /\ UNCHANGED readerVars

\* line 224
FlipResetAlerted ==
    /\ pc = "L224"
    /\ status' = [status EXCEPT ![ip] = ResetAlerted(@)]
    /\ versions' = [versions EXCEPT ![ip] = @ \cup {Version(status'[ip])}]
    /\ pc' = "L227"
    /\ UNCHANGED <<pingWait, args, ips, controller_status, i, online, cycle, now, history,
                   outbox, probes, evals, exc, exitCode, dashStarted>>
    /\ UNCHANGED readerVars

\* line 227: controller_status[ip] = dict(s)
FlipPublishCopy ==
    /\ pc = "L227"
    /\ controller_status' =
          [h \in DOMAIN controller_status \cup {ip} |->
              IF h = ip THEN CopyOf(status[ip]) ELSE controller_status[h]]
    /\ pc' = "L228"
    /\ UNCHANGED <<versions, pingWait, args, ips, status, i, online, cycle, now, history, outbox,
                   probes, evals, exc, exitCode, dashStarted>>
    /\ UNCHANGED readerVars

\* line 228: log_status_change(ip, state, s["changed"].isoformat())
FlipLog ==
    /\ pc = "L228"
    /\ history' = Append(history, TransitionRow(ip, online, status[ip]))
    /\ pc' = "L231"
    /\ UNCHANGED <<versions, pingWait, args, ips, status, controller_status, i, online, cycle, now,
                   outbox, probes, evals, exc, exitCode, dashStarted>>
    /\ UNCHANGED readerVars

\* same probe result as before: neither branch runs
NoChange ==
    /\ pc = "L216"
    /\ ObserveBranch(status[ip], online) = "same"
    /\ pc' = "L231"
    /\ UNCHANGED <<versions, pingWait, args, ips, status, controller_status, i, online, cycle, now,
                   history, outbox, probes, evals, versions, exc, exitCode, dashStarted>>
    /\ UNCHANGED readerVars

\* line 231: controller_status[ip] = s
Publish ==
    /\ pc = "L231"
    /\ controller_status' =
          [h \in DOMAIN controller_status \cup {ip} |->
              IF h = ip THEN Alias ELSE controller_status[h]]
    /\ pc' = "L234"
    /\ UNCHANGED <<versions, pingWait, args, ips, status, i, online, cycle, now, history, outbox,
                   probes, evals, exc, exitCode, dashStarted>>
    /\ UNCHANGED readerVars

\* line 234: log_status_change(ip, "ONLINE" if online else "OFFLINE", s["changed"])
PollLog ==
    /\ pc = "L234"
    /\ history' = Append(history, PollRow(ip, online, status[ip]))
    /\ pc' = "L237"
    /\ UNCHANGED <<versions, pingWait, args, ips, status, controller_status, i, online, cycle, now,
                   outbox, probes, evals, exc, exitCode, dashStarted>>
    /\ UNCHANGED readerVars

\* LogRaises with log_status_change wrapped in its own try/except
LogRaises_caught ==
    /\ pc \in {"L228", "L234"}
    /\ pc' = IF pc = "L228" THEN "L231" ELSE "L237"
    /\ exc' = "OperationalError"
    /\ UNCHANGED <<versions, pingWait, args, ips, status, controller_status, i, online,
                   cycle, now, history, outbox, probes, evals, exitCode, dashStarted>>
    /\ UNCHANGED readerVars

\* sqlite3 raises inside log_status_change (line 228 or 234): nothing catches it
\* before the handler of line 265
LogRaises ==
    /\ pc \in {"L228", "L234"}
    /\ Raise("OperationalError")
    /\ UNCHANGED <<versions, pingWait, args, ips, status, controller_status, i, online, cycle, now,
                   history, outbox, probes, evals, dashStarted>>
    /\ UNCHANGED readerVars

\* line 238 with an aware s["changed"]: naive - aware raises TypeError
AlertTypeError ==
    /\ pc = "L237"
    /\ AlertAction(status[ip], online, now, args.alert_after) = "TypeError"
    /\ Raise("TypeError")
    /\ UNCHANGED <<versions, pingWait, args, ips, status, controller_status, i, online, cycle, now,
                   history, outbox, probes, evals, dashStarted>>
    /\ UNCHANGED readerVars

\* lines 240-247: send_email returns
AlertDelivered ==
    /\ pc = "L237"
    /\ AlertAction(status[ip], online, now, args.alert_after) = "RaiseAlert"
    /\ outbox' = Append(outbox, Mail("ALERT", ip, TRUE, Len(probes[ip]), now))
    /\ status' = [status EXCEPT ![ip] = MarkAlerted(@)]
    /\ evals' = [evals EXCEPT ![ip] = @ + 1]
    /\ NextIter
    /\ UNCHANGED <<versions, pingWait, args, ips, controller_status, online, cycle, now, history,
                   probes, exc, exitCode, dashStarted>>
    /\ UNCHANGED readerVars

\* AlertDeliveryFails with s["alerted"] = True placed after the try statement
AlertDeliveryFails_marks ==
    /\ pc = "L237"
    /\ AlertAction(status[ip], online, now, args.alert_after) = "RaiseAlert"
    /\ outbox' = Append(outbox, Mail("ALERT", ip, FALSE, Len(probes[ip]), now))
    /\ status' = [status EXCEPT ![ip] = MarkAlerted(@)]
    /\ evals' = [evals EXCEPT ![ip] = @ + 1]
    /\ NextIter
    /\ UNCHANGED <<versions, pingWait, args, ips, controller_status, online, cycle, now,
                   history, probes, exc, exitCode, dashStarted>>
    /\ UNCHANGED readerVars

\* AlertDeliveryFails without the try/except of lines 244-249
AlertDeliveryFails_uncaught ==
    /\ pc = "L237"
    /\ AlertAction(status[ip], online, now, args.alert_after) = "RaiseAlert"
    /\ outbox' = Append(outbox, Mail("ALERT", ip, FALSE, Len(probes[ip]), now))
    /\ Raise("SMTPException")
    /\ UNCHANGED <<versions, pingWait, args, ips, status, controller_status, i, online,
                   cycle, now, history, probes, evals, dashStarted>>
    /\ UNCHANGED readerVars

\* lines 240-249: send_email raises, the inner handler logs it
AlertDeliveryFails ==
    /\ pc = "L237"
    /\ AlertAction(status[ip], online, now, args.alert_after) = "RaiseAlert"
    /\ outbox' = Append(outbox, Mail("ALERT", ip, FALSE, Len(probes[ip]), now))
    /\ evals' = [evals EXCEPT ![ip] = @ + 1]
    /\ NextIter
    /\ UNCHANGED <<versions, pingWait, args, ips, status, controller_status, online, cycle, now,
                   history, probes, exc, exitCode, dashStarted>>
    /\ UNCHANGED readerVars

\* lines 237-260 when no alert is due: offline below the threshold or already
\* alerted, or online; an online host with s["alerted"] set gets the recovery
\* mail and s["alerted"] = False whatever send_email did
NoAlertDue ==
    /\ pc = "L237"
    /\ LET a == AlertAction(status[ip], online, now, args.alert_after) IN
          /\ a \in {"None", "ClearAlert"}
          /\ IF a = "ClearAlert"
             THEN \E ok \in BOOLEAN :
                     /\ outbox' = Append(outbox, Mail("RECOVERED", ip, ok, Len(probes[ip]), now))
                     /\ status' = [status EXCEPT ![ip] = ClearAlerted(@)]
             ELSE UNCHANGED <<outbox, status>>
    /\ evals' = [evals EXCEPT ![ip] = @ + 1]
    /\ NextIter
    /\ UNCHANGED <<versions, pingWait, args, ips, controller_status, online, cycle, now, history,
                   probes, exc, exitCode, dashStarted>>
    /\ UNCHANGED readerVars

\* line 262: time.sleep(args.interval), then the next pass (at most k passes)
SleepUpTo(k) ==
    /\ pc = "L262"
    /\ cycle < k
    /\ now' = now + args.interval
    /\ cycle' = cycle + 1
    /\ i' = 1
    /\ pc' = "L212"
    /\ UNCHANGED <<versions, pingWait, args, ips, status, controller_status, online, history, outbox,
                   probes, evals, exc, exitCode, dashStarted>>
    /\ UNCHANGED readerVars

\* CTRL+C: KeyboardInterrupt is raised at whatever line the loop is executing
Interrupt ==
    /\ pc \in LoopPcs
    /\ Raise("KeyboardInterrupt")
    /\ UNCHANGED <<versions, pingWait, args, ips, status, controller_status, i, online, cycle, now,
                   history, outbox, probes, evals, dashStarted>>
    /\ UNCHANGED readerVars

(***************************************************************************)
(* The dashboard thread: one rendering of DASHBOARD_HTML, lines 89-98.     *)
(* It runs while the process lives; each step is one dict access, so the   *)
(* monitor may run between any two of them.                                *)
(***************************************************************************)
\* {{ 'online' if info['online'] else 'offline' }}
CssClass(v) == IF v = "True" THEN "online" ELSE "offline"

\* {{ 'ONLINE' if info['online'] else 'OFFLINE' }}
StateText(v) == IF v = "True" THEN "ONLINE" ELSE "OFFLINE"

ReaderLive == dashStarted /\ pc # "exited"

\* a request arrives; {% for ip, info in status.items() %} creates the iterator
RenderStart ==
    /\ ReaderLive
    /\ rpc = "idle"
    /\ rsize' = Cardinality(DOMAIN controller_status)
    /\ ridx' = 0
    /\ rip' = ""
    /\ rinfo' = Alias
    /\ rrow' = NoRow
    /\ rresult' = "none"
    /\ rpc' = "for"
    /\ UNCHANGED monitorVars

\* next() of the dict iterator: RuntimeError when the dict changed size, the end
\* of the table when exhausted, otherwise the next (ip, info) pair
RenderNext ==
    /\ ReaderLive
    /\ rpc = "for"
    /\ IF Cardinality(DOMAIN controller_status) # rsize
       THEN /\ rresult' = "RuntimeError"
            /\ rpc' = "idle"
            /\ UNCHANGED <<ridx, rip, rinfo, rrow>>
       ELSE IF ridx = rsize
       THEN /\ rresult' = "ok"
            /\ rpc' = "idle"
            /\ UNCHANGED <<ridx, rip, rinfo, rrow>>
       ELSE /\ ridx' = ridx + 1
            /\ rip' = Keys[ridx + 1]
            /\ rinfo' = controller_status[Keys[ridx + 1]]
            /\ rrow' = NoRow
            /\ rpc' = "L93"
            /\ UNCHANGED rresult
    /\ UNCHANGED rsize
    /\ UNCHANGED monitorVars

\* line 93: class attribute of the status cell
RenderClass ==
    /\ ReaderLive
    /\ rpc = "L93"
    /\ rrow' = [rrow EXCEPT !.cls = CssClass(Deref(rinfo, rip).online)]
    /\ rpc' = "L94"
    /\ UNCHANGED <<rsize, ridx, rip, rinfo, rresult>>
    /\ UNCHANGED monitorVars

\* line 94: text of the status cell
RenderText ==
    /\ ReaderLive
    /\ rpc = "L94"
    /\ rrow' = [rrow EXCEPT !.text = StateText(Deref(rinfo, rip).online)]
    /\ rpc' = "L96"
    /\ UNCHANGED <<rsize, ridx, rip, rinfo, rresult>>
    /\ UNCHANGED monitorVars

\* line 96: the last-change cell; the row is complete
RenderChanged ==
    /\ ReaderLive
    /\ rpc = "L96"
    /\ rrow' = [rrow EXCEPT !.changed = Deref(rinfo, rip).changed]
    /\ rpc' = "for"
    /\ UNCHANGED <<rsize, ridx, rip, rinfo, rresult>>
    /\ UNCHANGED monitorVars

Reader ==
    \/ RenderStart
    \/ RenderNext
    \/ RenderClass
    \/ RenderText
    \/ RenderChanged

Sleep == SleepUpTo(MaxCycles)

\* every step of main() but the sleep
Monitor ==
    \/ LoadIps
    \/ GetEmailCfg
    \/ InitStatus
    \/ StartDashboard
    \/ Ping
    \/ PingRaises
    \/ FirstSetOnline
    \/ FirstSetChanged
    \/ FlipSetOnline
    \/ FlipSetChanged
    \/ FlipResetAlerted
    \/ FlipPublishCopy
    \/ FlipLog
    \/ NoChange
    \/ Publish
    \/ PollLog
    \/ LogRaises
    \/ AlertTypeError
    \/ AlertDelivered
    \/ AlertDeliveryFails
    \/ NoAlertDue
    \/ Interrupt

Next ==
    \/ Monitor
    \/ Sleep

\* the monitor alone: no request reaches the dashboard
Spec == Init /\ [][Next]_vars

\* passes of the loop followed while the dashboard is being read
MaxDashCycles == 4

SleepDash == SleepUpTo(MaxDashCycles)

NextDash ==
    \/ Monitor
    \/ SleepDash
    \/ Reader

\* the monitor with the dashboard thread serving requests
SpecDash == Init /\ [][NextDash]_vars

(***************************************************************************)
(* Vocabulary of the properties.  An outage of h is a maximal run of       *)
(* offline results in probes[h]; it is told from the probe results and     *)
(* their times alone, not from the record the loop keeps.                  *)
(***************************************************************************)
\* first position of the run of equal results that contains position n of p
RunStart(p, n) ==
    CHOOSE k \in 1..n :
        /\ \A j \in k..n : p[j].up = p[n].up
        /\ k = 1 \/ p[k - 1].up # p[n].up

\* seconds between the start of the run containing probe n of h and probe n
ElapsedAt(h, n) == probes[h][n].t - probes[h][RunStart(probes[h], n)].t

\* positions in outbox of the mails of one kind about h sent while handling
\* probes lo..hi of h
MailsIn(kind, h, lo, hi) ==
    { j \in 1..Len(outbox) :
        /\ outbox[j].kind = kind
        /\ outbox[j].ip = h
        /\ outbox[j].at \in lo..hi }

DeliveredIn(kind, h, lo, hi) == { j \in MailsIn(kind, h, lo, hi) : outbox[j].ok }

FailedIn(kind, h, lo, hi) == { j \in MailsIn(kind, h, lo, hi) : ~outbox[j].ok }

Started == DOMAIN probes # {}

\* h has been probed and its latest probe has gone through lines 213-260
Handled(h) == Len(probes[h]) > 0 /\ evals[h] = Len(probes[h])

\* between two iterations of "for ip in ips"
AtBoundary == pc \in {"L212", "L262"}

\* main() ended for a reason outside the loop's own logic: CTRL+C, a failing
\* collaborator (ping, sqlite3), or a start-up error
EndedFromOutside ==
    \/ exc \in {"KeyboardInterrupt", "OSError", "OperationalError", "EnvironmentError"}
    \/ exitCode = 1

\* errors that can be raised inside a pass of the loop
CycleErrors == {"OSError", "OperationalError", "TypeError"}

(***************************************************************************)
(* C1.  Every outage that reaches alert_after seconds, with send_email     *)
(* succeeding, gets exactly one alert mail however long it lasts, whether  *)
(* it starts at the first observation or by an Online->Offline change:     *)
(* whenever the latest probe of h is offline and nothing outside the loop  *)
(* stopped the monitor, the monitor is still running, and once that probe  *)
(* has been handled with the threshold reached and no failed delivery in   *)
(* the outage, exactly one alert was delivered in the outage.              *)
(***************************************************************************)
C1_OneAlertPerOutage ==
    \A h \in DOMAIN probes :
        LET n == Len(probes[h])
            s == RunStart(probes[h], n)
        IN  (n > 0 /\ ~probes[h][n].up /\ ~EndedFromOutside) =>
               /\ exc = "none"
               /\ (/\ evals[h] = n
                   /\ ElapsedAt(h, n) >= args.alert_after
                   /\ FailedIn("ALERT", h, s, n) = {})
                  => Cardinality(DeliveredIn("ALERT", h, s, n)) = 1

(***************************************************************************)
(* C2.  When a probe is online after an outage in which an alert was       *)
(* delivered, exactly one recovery mail is attempted while handling that   *)
(* probe, alerted is false afterwards, and no further recovery mail is     *)
(* sent while the host stays online.                                       *)
(***************************************************************************)
C2_OneRecoveryPerAlertedOutage ==
    \A h \in DOMAIN probes :
        LET n == Len(probes[h])
            s == RunStart(probes[h], n)
        IN  (/\ Handled(h)
             /\ probes[h][n].up
             /\ s > 1
             /\ DeliveredIn("ALERT", h, RunStart(probes[h], s - 1), s - 1) # {})
            => /\ Cardinality(MailsIn("RECOVERED", h, s, s)) = 1
               /\ MailsIn("RECOVERED", h, s + 1, n) = {}
               /\ ~status[h].alerted

(***************************************************************************)
(* C3.  End-to-end run: hosts 10.0.0.1 and 10.0.0.2, interval 1 s,         *)
(* threshold 3 s, every collaborator succeeding, 10.0.0.1 answering        *)
(* online, online, offline, offline, offline, offline, online and          *)
(* 10.0.0.2 always online.  The run goes on through the script, sends one  *)
(* alert for 10.0.0.1 while handling its 4th offline reading (6th probe),  *)
(* one recovery mail while handling its 7th probe, and nothing about       *)
(* 10.0.0.2.                                                               *)
(***************************************************************************)
Script == <<TRUE, TRUE, FALSE, FALSE, FALSE, FALSE, TRUE>>

OnScript ==
    /\ ips = <<"10.0.0.1", "10.0.0.2">>
    /\ Started
    /\ args.interval = 1
    /\ args.alert_after = 3
    /\ pingWait = 0
    /\ Len(probes["10.0.0.1"]) <= Len(Script)
    /\ \A k \in 1..Len(probes["10.0.0.1"]) : probes["10.0.0.1"][k].up = Script[k]
    /\ \A k \in 1..Len(probes["10.0.0.2"]) : probes["10.0.0.2"][k].up
    /\ ~EndedFromOutside
    /\ \A j \in 1..Len(outbox) : outbox[j].ok

C3_EndToEnd ==
    OnScript =>
        LET done == evals["10.0.0.1"]
            top == Len(Script)
        IN  /\ exc = "none"
            /\ MailsIn("ALERT", "10.0.0.1", 1, top) = IF done >= 6 THEN MailsIn("ALERT", "10.0.0.1", 6, 6) ELSE {}
            /\ Cardinality(MailsIn("ALERT", "10.0.0.1", 6, 6)) = IF done >= 6 THEN 1 ELSE 0
            /\ MailsIn("RECOVERED", "10.0.0.1", 1, top) = IF done >= 7 THEN MailsIn("RECOVERED", "10.0.0.1", 7, 7) ELSE {}
            /\ Cardinality(MailsIn("RECOVERED", "10.0.0.1", 7, 7)) = IF done >= 7 THEN 1 ELSE 0
            /\ \A j \in 1..Len(outbox) : outbox[j].ip # "10.0.0.2"

(***************************************************************************)
(* C4.  No alert mail is attempted while the time since the host's latest  *)
(* change to offline is below alert_after: every alert mail was sent while *)
(* handling an offline probe at least alert_after seconds after the first  *)
(* offline probe of that outage.  An outage that ends earlier produces no  *)
(* mail at all: a recovery mail is only ever sent after an outage in which *)
(* an alert was delivered.                                                 *)
(***************************************************************************)
C4_NoAlertBelowThreshold ==
    \A j \in 1..Len(outbox) :
        LET m == outbox[j]
            p == probes[m.ip]
        IN  /\ m.kind = "ALERT" =>
                 /\ ~p[m.at].up
                 /\ m.t - p[RunStart(p, m.at)].t >= args.alert_after
            /\ m.kind = "RECOVERED" =>
                 /\ p[m.at].up
                 /\ m.at > 1
                 /\ DeliveredIn("ALERT", m.ip, RunStart(p, m.at - 1), m.at - 1) # {}

\* one host was offline for a while, below the threshold, came back and got no
\* mail, while an alert went out for the other one
C4_Witness ==
    /\ Started
    /\ AtBoundary
    /\ args.alert_after = 3
    /\ \E h \in Hosts :
          /\ Len(probes[h]) >= 3
          /\ ~probes[h][1].up /\ ~probes[h][2].up /\ probes[h][3].up
          /\ Handled(h)
          /\ MailsIn("ALERT", h, 1, 3) = {} /\ MailsIn("RECOVERED", h, 1, 3) = {}
    /\ \E j \in 1..Len(outbox) : outbox[j].kind = "ALERT"

(***************************************************************************)
(* C5.  Between two per-host iterations of the loop, alerted is true only  *)
(* for a host whose recorded state is offline: it is false while the state *)
(* is unknown (None) or online.                                            *)
(***************************************************************************)
C5_AlertedOnlyOffline ==
    (Started /\ AtBoundary) =>
        \A h \in Hosts : status[h].alerted => status[h].online = "False"

\* an alerted host at the end of an iteration, and another that was alerted,
\* came back, and is now online with the flag down
C5_Witness ==
    /\ Started
    /\ AtBoundary
    /\ \E h \in Hosts : status[h].alerted
    /\ \E h \in Hosts :
          /\ status[h].online = "True"
          /\ ~status[h].alerted
          /\ DeliveredIn("ALERT", h, 1, Len(probes[h])) # {}

(***************************************************************************)
(* C6.  A failed alert delivery leaves alerted false and the iteration     *)
(* ends normally; while the host stays offline every later probe is        *)
(* followed by exactly one new attempt until a delivery succeeds, and by   *)
(* none after that; alerted tells whether an alert was delivered in the    *)
(* current outage.                                                         *)
(***************************************************************************)
C6_RetryUntilDelivered ==
    \A h \in DOMAIN probes :
        /\ \A j \in FailedIn("ALERT", h, 1, Len(probes[h])) :
              LET m == outbox[j].at IN
                 /\ evals[h] >= m
                 /\ \A n \in (m + 1)..evals[h] :
                       (\A k \in m..n : ~probes[h][k].up) =>
                          Cardinality(MailsIn("ALERT", h, n, n)) =
                             IF DeliveredIn("ALERT", h, m, n - 1) = {} THEN 1 ELSE 0
        /\ (Handled(h) /\ ~probes[h][Len(probes[h])].up) =>
              (status[h].alerted <=>
                 DeliveredIn("ALERT", h, RunStart(probes[h], Len(probes[h])), Len(probes[h])) # {})

\* a delivery failed, the retry at a later probe succeeded, and the probe after
\* that, still offline, was handled without a mail
C6_Witness ==
    /\ Started
    /\ \E h \in Hosts : \E m, n \in 1..Len(probes[h]) :
          /\ m < n
          /\ n + 1 <= evals[h]
          /\ \A k \in m..(n + 1) : ~probes[h][k].up
          /\ FailedIn("ALERT", h, m, m) # {}
          /\ DeliveredIn("ALERT", h, n, n) # {}
          /\ MailsIn("ALERT", h, n + 1, n + 1) = {}
          /\ status[h].alerted

(***************************************************************************)
(* C7.  With no CTRL+C and ping, send_email and sqlite3 all working, the   *)
(* monitor never exits, whatever the probe results; the subtraction of     *)
(* line 238 always has two datetimes of the same kind.                     *)
(***************************************************************************)
C7_RunsIndefinitely ==
    /\ pc = "exited" => EndedFromOutside
    /\ (pc = "L237" /\ ~online) => ~status[ip].changed.aware

RowComplete == ridx > 0 /\ rpc \in {"for", "idle"}

C10_NoTornRow ==
    RowComplete =>
        \E v \in versions[rip] :
            /\ rrow.cls = CssClass(v.online)
            /\ rrow.text = StateText(v.online)
            /\ rrow.changed = v.changed

(***************************************************************************)
(* C11.  lastChangeTime changes only at the first observation and at a     *)
(* state change: once the latest probe of a host has been handled, the     *)
(* record's changed time is the time of the first probe of the current run *)
(* of equal results, however many equal results followed it and whether or *)
(* not an alert mail went out in between.                                  *)
(***************************************************************************)
C11_ChangedOnlyOnTransition ==
    \A h \in DOMAIN probes :
        Handled(h) =>
            status[h].changed.t =
               probes[h][RunStart(probes[h], Len(probes[h]))].t

\* one host changed state and then repeated the new result, the other stayed
\* offline from its first probe through a delivered alert and a further probe
C11_Witness ==
    /\ Started
    /\ \E h \in Hosts :
          /\ Handled(h)
          /\ Len(probes[h]) >= 3
          /\ RunStart(probes[h], Len(probes[h])) = 2
          /\ probes[h][Len(probes[h])].t > probes[h][2].t
    /\ \E h \in Hosts :
          /\ Handled(h)
          /\ ~probes[h][Len(probes[h])].up
          /\ RunStart(probes[h], Len(probes[h])) = 1
          /\ DeliveredIn("ALERT", h, 1, Len(probes[h]) - 1) # {}

RowsAbout(h) == { j \in 1..Len(history) : history[j].ip = h }

ChangesOf(h) == { k \in 2..Len(probes[h]) : probes[h][k].up # probes[h][k - 1].up }

C13_OneRowPerTransition ==
    \A h \in DOMAIN probes :
        Handled(h) => Cardinality(RowsAbout(h)) = Cardinality(ChangesOf(h))

(***************************************************************************)
(* C14.  A mail that cannot be delivered does not stop the pass and        *)
(* touches no other host: the step in which send_email fails raises        *)
(* nothing out of the loop, completes the evaluation of its own host,      *)
(* leaves the record of every other host as it was, and hands over to the  *)
(* probe of the next host of the list (or to the sleep after the last).    *)
(***************************************************************************)
C14_DeliveryFailureIsLocal ==
    [][ (Len(outbox') = Len(outbox) + 1 /\ ~outbox'[Len(outbox')].ok) =>
           /\ exc' = "none"
           /\ evals'[ip] = evals[ip] + 1
           /\ \A h \in Hosts \ {ip} : status'[h] = status[h]
           /\ IF i < Len(ips)
              THEN pc' = "L212" /\ i' = i + 1
              ELSE pc' = "L262" /\ i' = i
      ]_vars

\* the alert about the first host could not be delivered, and the second host,
\* offline too, was probed and got its own alert in the same pass
C14_Witness ==
    /\ Started
    /\ Len(ips) = 2
    /\ \E j \in FailedIn("ALERT", ips[1], 1, Len(probes[ips[1]])) :
          /\ evals[ips[2]] >= outbox[j].at
          /\ DeliveredIn("ALERT", ips[2], outbox[j].at, outbox[j].at) # {}
          /\ ~status[ips[1]].alerted
          /\ status[ips[2]].alerted

(***************************************************************************)
(* C15.  An empty host list or a missing mail setting ends the program     *)
(* before the loop: no probe, no mail, no history row, no dashboard        *)
(* thread, and a non-zero exit status.                                     *)
(***************************************************************************)
AbortedAtStartup ==
    /\ pc = "exited"
    /\ exitCode > 0
    /\ ~dashStarted
    /\ cycle = 0
    /\ probes = <<>>
    /\ outbox = <<>>
    /\ history = <<>>

C15_StartupErrorsAbort ==
    /\ (pc # "L184" /\ ips = <<>>) => AbortedAtStartup
    /\ exc = "EnvironmentError" => AbortedAtStartup

\* two hosts were read from the file and a mail setting is missing
C15_Witness ==
    /\ Len(ips) = 2
    /\ exc = "EnvironmentError"
    /\ pc = "exited"
    /\ exitCode = 1
    /\ ~dashStarted

(***************************************************************************)
(* C16.  In every state, alerted is true for a host only if an alert mail  *)
(* about it was delivered at or after the first probe of its latest        *)
(* offline run: the flag is never set by a failed or missing delivery and  *)
(* never survives from an earlier outage.                                  *)
(***************************************************************************)
\* first probe of the latest offline run of h, 0 if h was never seen offline
LatestOutageStart(h) ==
    LET p == probes[h]
        n == Len(p)
    IN  IF n = 0 THEN 0
        ELSE IF ~p[n].up THEN RunStart(p, n)
        ELSE IF RunStart(p, n) > 1 THEN RunStart(p, RunStart(p, n) - 1)
        ELSE 0

C16_AlertedMeansDelivered ==
    \A h \in DOMAIN probes :
        status[h].alerted =>
            /\ LatestOutageStart(h) > 0
            /\ DeliveredIn("ALERT", h, LatestOutageStart(h), Len(probes[h])) # {}

\* the flag is up after two failed deliveries and one that went through
C16_Witness ==
    /\ Started
    /\ \E h \in Hosts :
          /\ status[h].alerted
          /\ Cardinality(FailedIn("ALERT", h, 1, Len(probes[h]))) = 2
          /\ Cardinality(DeliveredIn("ALERT", h, 1, Len(probes[h]))) = 1
          /\ pc = "L262"

(***************************************************************************)
(* C17.  What the dashboard is given is a copy cut off from the loop's     *)
(* records: while controller_status itself is not assigned to, the record  *)
(* an entry shows does not change, and the record a rendering has taken    *)
(* for a row does not change while the row is being rendered.              *)
(***************************************************************************)
RenderingRow == rpc \in {"L93", "L94", "L96"}

C17_SnapshotIsolated ==
    [][ /\ controller_status' = controller_status =>
              \A h \in DOMAIN controller_status :
                  Deref(controller_status[h], h)' = Deref(controller_status[h], h)
        /\ (RenderingRow /\ RenderingRow' /\ ridx' = ridx) =>
              Deref(rinfo, rip)' = Deref(rinfo, rip)
      ]_vars

(***************************************************************************)
(* C18.  A rendering that walks over all entries of controller_status      *)
(* while the loop runs, first pass included, ends without error and has    *)
(* rendered as many rows as the table had entries when it started.         *)
(***************************************************************************)
C18_ReadCompletes ==
    /\ rresult # "RuntimeError"
    /\ (rpc = "idle" /\ rresult = "ok") => ridx = rsize

TransitionRowsAbout(h) == { j \in RowsAbout(h) : history[j].sep = "T" }

C20_UnknownOnlyBeforeFirstProbe ==
    /\ \A h \in DOMAIN status :
          /\ status[h].online = "None" =>
                (evals[h] = 0 /\ Len(probes[h]) <= 1 /\ ~status[h].alerted)
          /\ (evals[h] >= 1 \/ Len(probes[h]) >= 2) => status[h].online # "None"
          /\ Len(probes[h]) <= 1 => TransitionRowsAbout(h) = {}
    /\ \A h \in DOMAIN controller_status :
          Deref(controller_status[h], h).online # "None"
    /\ (pc = "L231" /\ Len(probes[ip]) = 1) =>
          status[ip] = [online |-> PyBool(probes[ip][1].up),
                        changed |-> UtcNow(probes[ip][1].t),
                        alerted |-> FALSE]

\* the second host has just been observed for the first time, offline, some
\* seconds after start-up; only the first host is in controller_status
C20_Witness ==
    /\ pc = "L231"
    /\ i = 2
    /\ Len(probes[ip]) = 1
    /\ ~online
    /\ now > 0
    /\ status[ip].online = "False"
    /\ DOMAIN controller_status = {ips[1]}

====
